---- MODULE Spec2Model ----
(***************************************************************************)
(* CloudGraph canvas: the graph store (frontend/src/app/store.ts), the     *)
(* placement rules (features/canvas/utils/validation.ts) and the drag/drop *)
(* handlers of the canvas component (features/canvas/Canvas.tsx).          *)
(*                                                                         *)
(* Conventions.  A point {x, y} is the tuple <<x, y>>.  The JavaScript     *)
(* value undefined is the empty tuple <<>> (for an id, a position or a     *)
(* parent reference), 0 for a number and "" for a string read through     *)
(* `||`, which treats them alike.  A node id `${type}-${Date.now()}` is    *)
(* the tuple <<type, t>>.  Every node record carries every field; a field  *)
(* the code leaves out holds Undefined.                                    *)
(***************************************************************************)
EXTENDS Integers, Sequences, FiniteSets, TLC

VARIABLES
    nodes,      \* store.nodes: the ordered node collection
    edges,      \* store.edges: the ordered edge collection
    dragRef,    \* Canvas dragRef.current: snapshot taken at drag start, or Undefined
    dragging,   \* id of the node React Flow is dragging, or Undefined (no gesture)
    clock,      \* the last Date.now() reading that was used in a node id
    budget,     \* number of further gestures the exploration follows
    last,       \* record of the handler that ran last (history, for the properties)
    probe,      \* one call followed on its own (validatePlacement, a store
                \* function, handleGenerate): arguments and result
    timers,     \* pending setTimeout callbacks of the cost effect, oldest first
    inflight,   \* cost-estimation requests sent and not yet resolved, oldest first
    costs,      \* store.totalCost and store.costBreakdown
    cev,        \* record of the cost adapter's last step (history, for the properties)
    project     \* diagram_data of the persisted project record, or Undefined

vars == <<nodes, edges, dragRef, dragging, clock, budget, last, probe,
          timers, inflight, costs, cev, project>>

(***************************************************************************)
(* Bounds of the exploration.                                              *)
(***************************************************************************)
MaxNodes == 4
MaxEdges == 1
\* Gestures (accepted drops, drags, connections) followed from the empty
\* canvas, and from a canvas that already holds a network and a subnet.
MaxGestures == 4
MaxDeepGestures == 3
\* Gestures followed while the cost adapter's timer, requests and answers are
\* followed as well, and cost requests issued in one exploration.
MaxCostGestures == 2
MaxRequests == 2
\* Granularity of time: the clock advances in steps of TickMs milliseconds.
TickMs == 250
\* Direct calls of store functions followed from one canvas.
MaxStoreOps == 2

\* Canvas points the pointer is released at (drop point, or the top-left
\* corner a dragged node is moved to), in flow coordinates.
Points == { <<0, 0>>, <<200, 0>>, <<400, 0>>, <<600, 0>>, <<0, 300>> }

\* Palette entries dropped on the canvas (ResourcePalette RESOURCES; rds
\* takes the same path as ec2 through every handler and is exercised in the
\* rule probe only).
PaletteTypes == { "vpc", "subnet", "eks", "eks-node-group", "ec2", "s3" }
AllPaletteTypes == PaletteTypes \cup { "rds" }

Undefined == << >>

Z_LAYERS == [ vpc |-> 10, subnet |-> 20, eks |-> 25, resource |-> 30 ]

(***************************************************************************)
(* Placement rules (validation.ts).                                        *)
(***************************************************************************)
RuleTypes == { "subnet", "service", "vpc", "eks", "eks-node-group" }

RULES(t) ==
    CASE t = "subnet" ->
            [ allowedParents |-> { "vpc" }, mustHaveParent |-> TRUE, exceptions |-> {},
              errorMessage |-> "Subnets must be placed inside a VPC." ]
      [] t = "service" ->
            [ allowedParents |-> { "subnet" }, mustHaveParent |-> TRUE, exceptions |-> { "s3" },
              errorMessage |-> "Compute resources must be placed inside a Subnet." ]
      [] t = "vpc" ->
            [ allowedParents |-> {}, mustHaveParent |-> FALSE, exceptions |-> {},
              errorMessage |-> "" ]
      [] t = "eks" ->
            [ allowedParents |-> { "subnet" }, mustHaveParent |-> TRUE, exceptions |-> {},
              errorMessage |-> "EKS clusters must be placed inside a Subnet." ]
      [] t = "eks-node-group" ->
            [ allowedParents |-> { "eks" }, mustHaveParent |-> TRUE, exceptions |-> {},
              errorMessage |-> "Node groups must be placed inside an EKS cluster." ]

\* Variant: the rule is looked up by the node's type alone.
ruleKey_ByNodeType(node) ==
    IF node.type # "" THEN node.type ELSE node.data.type

\* The rule key validatePlacement looks up for a node (lines 37-46).
ruleKey(node) ==
    IF node.data.type \in { "vpc", "subnet" }
    THEN (IF node.type # "" THEN node.type ELSE node.data.type)
    ELSE IF node.data.type = "eks" THEN "eks"
    ELSE IF node.data.type = "eks-node-group" THEN "eks-node-group"
    ELSE "service"

\* Variant: the parent's type is never compared with allowedParents.
validatePlacement_AnyParent(node, parentNode) ==
    LET nodeType == ruleKey(node)
    IN  IF nodeType \notin RuleTypes THEN [ valid |-> TRUE ]
        ELSE LET rule == RULES(nodeType) IN
             IF node.data.type \in rule.exceptions
             THEN [ valid |-> TRUE ]
             ELSE IF rule.mustHaveParent /\ parentNode = Undefined
             THEN [ valid |-> FALSE, message |-> rule.errorMessage ]
             ELSE [ valid |-> TRUE ]

\* Variant: mustHaveParent is never enforced.
validatePlacement_OrphansAllowed(node, parentNode) ==
    LET nodeType == ruleKey(node)
    IN  IF nodeType \notin RuleTypes THEN [ valid |-> TRUE ]
        ELSE LET rule == RULES(nodeType) IN
             IF node.data.type \in rule.exceptions
             THEN [ valid |-> TRUE ]
             ELSE IF parentNode # Undefined /\ parentNode.type \notin rule.allowedParents
             THEN [ valid |-> FALSE, message |-> rule.errorMessage ]
             ELSE [ valid |-> TRUE ]

\* validatePlacement(node, parentNode); parentNode = Undefined for no parent.
\* A valid result is { valid: true }, with no message.
validatePlacement(node, parentNode) ==
    LET nodeType == ruleKey(node)
        specificType == node.data.type
    IN  IF nodeType \notin RuleTypes THEN [ valid |-> TRUE ]
        ELSE LET rule == RULES(nodeType) IN
             IF specificType \in rule.exceptions
             THEN [ valid |-> TRUE ]
             ELSE IF rule.mustHaveParent /\ parentNode = Undefined
             THEN [ valid |-> FALSE, message |-> rule.errorMessage ]
             ELSE IF parentNode # Undefined /\ parentNode.type \notin rule.allowedParents
             THEN [ valid |-> FALSE, message |-> rule.errorMessage ]
             ELSE [ valid |-> TRUE ]

(***************************************************************************)
(* Graph store (store.ts).                                                 *)
(***************************************************************************)
\* nodes.find(n => n.id === id): the first node with that id, or Undefined.
RECURSIVE findFrom(_, _, _)
findFrom(ns, id, i) ==
    IF i > Len(ns) THEN Undefined
    ELSE IF ns[i].id = id THEN ns[i]
    ELSE findFrom(ns, id, i + 1)

find(ns, id) == findFrom(ns, id, 1)

\* { ...node, ...payload }: the payload's fields override the node's.
merge(node, payload) ==
    [ f \in (DOMAIN node) \cup (DOMAIN payload) |->
        IF f \in DOMAIN payload THEN payload[f] ELSE node[f] ]

\* Variant: the new node is put in front of the others.
addNode_Prepends(ns, node) == << node >> \o ns

addNode(ns, node) == Append(ns, node)

\* Variant: the payload is merged into every node, whatever its id.
updateNode_EveryNode(ns, nodeId, payload) ==
    [ i \in 1..Len(ns) |-> merge(ns[i], payload) ]

\* Variant: the payload is merged into the first node, whatever the id.
updateNode_FirstNode(ns, nodeId, payload) ==
    [ i \in 1..Len(ns) |-> IF i = 1 THEN merge(ns[i], payload) ELSE ns[i] ]

\* Variant: the payload is merged into the node and into its children.
updateNode_WithChildren(ns, nodeId, payload) ==
    [ i \in 1..Len(ns) |->
        IF ns[i].id = nodeId \/ ns[i].parentNode = nodeId
        THEN merge(ns[i], payload) ELSE ns[i] ]

updateNode(ns, nodeId, payload) ==
    [ i \in 1..Len(ns) |-> IF ns[i].id = nodeId THEN merge(ns[i], payload) ELSE ns[i] ]

\* Variant: the new attributes replace the node's attributes.
updateNodeData_Replaces(ns, nodeId, newData) ==
    [ i \in 1..Len(ns) |->
        IF ns[i].id = nodeId THEN [ ns[i] EXCEPT !.data = newData ] ELSE ns[i] ]

updateNodeData(ns, nodeId, newData) ==
    [ i \in 1..Len(ns) |->
        IF ns[i].id = nodeId
        THEN [ ns[i] EXCEPT !.data = merge(ns[i].data, newData) ]
        ELSE ns[i] ]

(***************************************************************************)
(* Coordinates.                                                            *)
(***************************************************************************)
Plus(p, q) == << p[1] + q[1], p[2] + q[2] >>
Minus(p, q) == << p[1] - q[1], p[2] - q[2] >>

\* getAbsolutePosition(node) over the store's node list ns (Canvas.tsx 81-91):
\* a positionAbsolute carried by the node is returned as it is.
RECURSIVE getAbsolutePosition(_, _)
getAbsolutePosition(ns, node) ==
    IF node = Undefined THEN << 0, 0 >>
    ELSE IF node.positionAbsolute # Undefined THEN node.positionAbsolute
    ELSE Plus(node.position, getAbsolutePosition(ns, find(ns, node.parentNode)))

\* The absolute position React Flow keeps for a node in its internal node
\* map: the sum of the relative positions along the parentNode chain of the
\* node list it was given.
RECURSIVE flowAbsolute(_, _)
flowAbsolute(ns, node) ==
    IF node = Undefined THEN << 0, 0 >>
    ELSE Plus(node.position, flowAbsolute(ns, find(ns, node.parentNode)))

\* Measured width and height React Flow reports for a rendered node (its
\* 'dimensions' change, applied by onNodesChange right after the first
\* render): the style size of a container, the icon card of a service node.
measured(style) ==
    IF style.width # 0 THEN style ELSE [ width |-> 40, height |-> 40 ]

\* The node object React Flow hands to onNodeDragStart / onNodeDragStop: the
\* store node with the absolute position of the internal node map.
flowNode(ns, node) ==
    merge(node, [ positionAbsolute |-> flowAbsolute(ns, node) ])

(***************************************************************************)
(* Hit-testing helpers shared by onNodeDragStop and onDrop.                *)
(***************************************************************************)
\* JavaScript a || b on numbers.
Or(a, b) == IF a # 0 THEN a ELSE b

\* Array.prototype.sort((a, b) => (b.zIndex || 0) - (a.zIndex || 0)): stable,
\* descending zIndex.
RECURSIVE insertByZ(_, _)
insertByZ(sorted, n) ==
    IF sorted = << >> THEN << n >>
    ELSE IF Head(sorted).zIndex >= n.zIndex
         THEN << Head(sorted) >> \o insertByZ(Tail(sorted), n)
         ELSE << n >> \o sorted

RECURSIVE sortByZ(_)
sortByZ(ns) ==
    IF ns = << >> THEN << >>
    ELSE insertByZ(sortByZ(SubSeq(ns, 1, Len(ns) - 1)), ns[Len(ns)])

isContainerType(t) == t \in { "vpc", "subnet", "eks" }

\* Variant: the right and bottom edges are outside.
isInside_Exclusive(p, pAbs, pW, pH) ==
    /\ p[1] >= pAbs[1]
    /\ p[1] < pAbs[1] + pW
    /\ p[2] >= pAbs[2]
    /\ p[2] < pAbs[2] + pH

\* The inclusive rectangle test of both handlers.
isInside(p, pAbs, pW, pH) ==
    /\ p[1] >= pAbs[1]
    /\ p[1] <= pAbs[1] + pW
    /\ p[2] >= pAbs[2]
    /\ p[2] <= pAbs[2] + pH

(***************************************************************************)
(* onDrop (Canvas.tsx 187-332).                                            *)
(***************************************************************************)
\* Default attributes of a dropped resource (lines 211-268).
defaultData(type) ==
    LET base == [ label |-> "New " \o type, type |-> type ] IN
    CASE type = "vpc" ->
            merge(base, [ cidr |-> "10.0.0.0/16", enableDnsHostnames |-> TRUE ])
      [] type = "subnet" ->
            merge(base, [ cidr |-> "10.0.1.0/24", az |-> "us-east-1a", mapPublicIp |-> TRUE ])
      [] type = "ec2" ->
            merge(base, [ instanceType |-> "t3.micro", ami |-> "ubuntu-22.04" ])
      [] type = "rds" ->
            merge(base, [ label |-> "my-db", engine |-> "mysql",
                          instanceClass |-> "db.t3.micro", allocatedStorage |-> 20,
                          username |-> "admin" ])
      [] type = "s3" ->
            merge(base, [ label |-> "my-app-bucket", versioning |-> FALSE,
                          forceDestroy |-> FALSE ])
      [] type = "eks" ->
            merge(base, [ label |-> "my-eks-cluster", version |-> "1.29" ])
      [] type = "eks-node-group" ->
            merge(base, [ label |-> "workers", instanceTypes |-> << "t3.medium" >>,
                          desiredSize |-> 2, minSize |-> 1, maxSize |-> 4 ])
      [] OTHER -> base

\* Size and stacking index given to a dropped resource (lines 199-209).
dropStyle(type) ==
    CASE type = "vpc" -> [ width |-> 500, height |-> 400 ]
      [] type = "subnet" -> [ width |-> 250, height |-> 180 ]
      [] type = "eks" -> [ width |-> 300, height |-> 200 ]
      [] OTHER -> [ width |-> 0, height |-> 0 ]

dropZIndex(type) ==
    CASE type = "vpc" -> Z_LAYERS.vpc
      [] type = "subnet" -> Z_LAYERS.subnet
      [] type = "eks" -> Z_LAYERS.eks
      [] OTHER -> Z_LAYERS.resource

\* The node literal of lines 271-280, with the size React Flow measures for
\* it once rendered.  t is the Date.now() reading.
newNodeAt(type, t, mousePos) ==
    [ id |-> << type, t >>,
      type |-> IF isContainerType(type) THEN type ELSE "service",
      position |-> mousePos,
      data |-> defaultData(type),
      zIndex |-> dropZIndex(type),
      style |-> dropStyle(type),
      extent |-> Undefined,
      parentNode |-> Undefined,
      width |-> measured(dropStyle(type)).width,
      height |-> measured(dropStyle(type)).height,
      positionAbsolute |-> Undefined ]

\* potentialParents of onDrop (lines 282-284).
dropCandidates(ns) ==
    sortByZ(SelectSeq(ns, LAMBDA n : isContainerType(n.type)))

\* The pairing test inside the drop loop (lines 299-303).
dropPairValid(type, parent) ==
    \/ type = "subnet" /\ parent.type = "vpc"
    \/ type = "eks" /\ parent.type = "subnet"
    \/ type = "eks-node-group" /\ parent.type = "eks"
    \/ ~isContainerType(type) /\ parent.type = "subnet"

\* The loop of lines 286-316: the first candidate that contains the drop
\* point and passes the pairing test, or Undefined.
RECURSIVE dropParent(_, _, _, _)
dropParent(ns, cands, type, mousePos) ==
    IF cands = << >> THEN Undefined
    ELSE LET parent == Head(cands)
             pAbs == getAbsolutePosition(ns, parent)
             pW == Or(parent.width, Or(parent.style.width, 200))
             pH == Or(parent.height, Or(parent.style.height, 150))
         IN  IF isInside(mousePos, pAbs, pW, pH) /\ dropPairValid(type, parent)
             THEN parent
             ELSE dropParent(ns, Tail(cands), type, mousePos)

\* Variant: the node is added whatever the verdict.
onDrop_AddsAnyway(ns, type, t, mousePos) ==
    LET hit == dropParent(ns, dropCandidates(ns), type, mousePos)
        fresh == newNodeAt(type, t, mousePos)
        newNode == IF hit = Undefined THEN fresh
                   ELSE merge(fresh, [ parentNode |-> hit.id, extent |-> Undefined,
                                       position |-> Minus(mousePos, getAbsolutePosition(ns, hit)) ])
        parentNode == IF newNode.parentNode # Undefined
                      THEN find(ns, newNode.parentNode) ELSE Undefined
        validation == validatePlacement(newNode, parentNode)
    IN  [ node |-> newNode, valid |-> validation.valid, nodes |-> addNode(ns, newNode) ]

\* Variant: a node dropped into a parent keeps the drop point as position.
onDrop_KeepsPoint(ns, type, t, mousePos) ==
    LET hit == dropParent(ns, dropCandidates(ns), type, mousePos)
        fresh == newNodeAt(type, t, mousePos)
        newNode == IF hit = Undefined THEN fresh
                   ELSE merge(fresh, [ parentNode |-> hit.id, extent |-> Undefined ])
        parentNode == IF newNode.parentNode # Undefined
                      THEN find(ns, newNode.parentNode) ELSE Undefined
        validation == validatePlacement(newNode, parentNode)
    IN  [ node |-> newNode, valid |-> validation.valid,
          nodes |-> IF validation.valid THEN addNode(ns, newNode) ELSE ns ]

\* onDrop up to the placement check: the node it would add and the verdict.
onDrop(ns, type, t, mousePos) ==
    LET hit == dropParent(ns, dropCandidates(ns), type, mousePos)
        fresh == newNodeAt(type, t, mousePos)
        newNode == IF hit = Undefined THEN fresh
                   ELSE merge(fresh, [ parentNode |-> hit.id, extent |-> Undefined,
                                       position |-> Minus(mousePos, getAbsolutePosition(ns, hit)) ])
        parentNode == IF newNode.parentNode # Undefined
                      THEN find(ns, newNode.parentNode) ELSE Undefined
        validation == validatePlacement(newNode, parentNode)
    IN  [ node |-> newNode, valid |-> validation.valid,
          nodes |-> IF validation.valid THEN addNode(ns, newNode) ELSE ns ]

(***************************************************************************)
(* Drag handlers (Canvas.tsx 94-180).                                      *)
(***************************************************************************)
\* Variant: the snapshot forgets the parent.
onNodeDragStart_NoParent(node) ==
    [ id |-> node.id, position |-> node.position, parentNode |-> Undefined ]

\* onNodeDragStart: the snapshot stored in dragRef.current.
onNodeDragStart(node) ==
    [ id |-> node.id, position |-> node.position, parentNode |-> node.parentNode ]

\* applyNodeChanges for the position change React Flow emits on every drag
\* move of one node: { id, type: 'position', position, positionAbsolute },
\* written into every store node carrying that id (store.ts onNodesChange).
onNodesChange(ns, change) ==
    [ i \in 1..Len(ns) |->
        IF ns[i].id = change.id
        THEN merge(ns[i], [ position |-> change.position,
                            positionAbsolute |-> change.positionAbsolute ])
        ELSE ns[i] ]

\* potentialParents of onNodeDragStop (lines 112-114).
dragCandidates(ns, node) ==
    sortByZ(SelectSeq(ns, LAMBDA n : isContainerType(n.type) /\ n.id # node.id))

\* The pairing test inside the drag-stop loop (lines 130-133).
dragPairValid(node, parent) ==
    \/ node.type = "service" /\ parent.type = "subnet"
    \/ node.type = "subnet" /\ parent.type = "vpc"
    \/ node.type = "eks" /\ parent.type = "subnet"
    \/ node.type = "eks-node-group" /\ parent.type = "eks"

\* The loop of lines 118-135.
RECURSIVE dragParent(_, _, _, _)
dragParent(ns, cands, node, nodeCenter) ==
    IF cands = << >> THEN Undefined
    ELSE LET parent == Head(cands)
             pAbs == getAbsolutePosition(ns, parent)
             pW == Or(parent.width, Or(parent.style.width, 0))
             pH == Or(parent.height, Or(parent.style.height, 0))
         IN  IF isInside(nodeCenter, pAbs, pW, pH) /\ dragPairValid(node, parent)
             THEN parent
             ELSE dragParent(ns, Tail(cands), node, nodeCenter)

\* Center of the dragged node (lines 106-110).  Every width and height of
\* the model is even, so the halves are exact.
centerOf(ns, node) ==
    LET nodeAbs == getAbsolutePosition(ns, node)
    IN  << nodeAbs[1] + (node.width \div 2), nodeAbs[2] + (node.height \div 2) >>

\* Where the top-left corner of a dragged node is when its center, as lines
\* 106-110 compute it, is at the point center.
cornerAt(node, center) ==
    Minus(center, << node.width \div 2, node.height \div 2 >>)

\* Variant: a release inside the unchanged parent puts the node back where
\* the gesture found it.
onNodeDragStop_KeptRestores(ns, ref, node) ==
    IF node.type = "vpc"
    THEN [ outcome |-> "ignored", nodes |-> ns, dragRef |-> ref,
           newParent |-> Undefined, center |-> Undefined ]
    ELSE
    LET nodeAbs == getAbsolutePosition(ns, node)
        nodeCenter == centerOf(ns, node)
        newParent == dragParent(ns, dragCandidates(ns, node), node, nodeCenter)
        validation == validatePlacement(node, newParent)
        parentId == IF newParent = Undefined THEN Undefined ELSE newParent.id
    IN  IF ~validation.valid
        THEN [ outcome |-> "reverted",
               nodes |-> IF ref # Undefined /\ ref.id = node.id
                         THEN updateNode(ns, node.id,
                                         [ position |-> ref.position,
                                           parentNode |-> ref.parentNode,
                                           extent |-> Undefined ])
                         ELSE ns,
               dragRef |-> ref, newParent |-> parentId, center |-> nodeCenter ]
        ELSE IF newParent # Undefined
        THEN [ outcome |-> IF node.parentNode # newParent.id THEN "reparented" ELSE "kept",
               nodes |-> IF node.parentNode # newParent.id
                         THEN updateNode(ns, node.id,
                                         [ parentNode |-> newParent.id,
                                           position |-> Minus(nodeAbs,
                                               getAbsolutePosition(ns, newParent)) ])
                         ELSE updateNode(ns, node.id, [ position |-> ref.position ]),
               dragRef |-> Undefined, newParent |-> parentId, center |-> nodeCenter ]
        ELSE [ outcome |-> IF node.parentNode # Undefined THEN "orphaned" ELSE "kept",
               nodes |-> IF node.parentNode # Undefined
                         THEN updateNode(ns, node.id,
                                         [ parentNode |-> Undefined, position |-> nodeAbs ])
                         ELSE ns,
               dragRef |-> Undefined, newParent |-> parentId, center |-> nodeCenter ]

\* onNodeDragStop(node) with the store's node list ns and dragRef.current
\* ref: the outcome, the node list and the dragRef it leaves.
onNodeDragStop(ns, ref, node) ==
    IF node.type = "vpc"
    THEN [ outcome |-> "ignored", nodes |-> ns, dragRef |-> ref,
           newParent |-> Undefined, center |-> Undefined ]
    ELSE
    LET nodeAbs == getAbsolutePosition(ns, node)
        nodeCenter == centerOf(ns, node)
        newParent == dragParent(ns, dragCandidates(ns, node), node, nodeCenter)
        validation == validatePlacement(node, newParent)
        parentId == IF newParent = Undefined THEN Undefined ELSE newParent.id
    IN  IF ~validation.valid
        THEN [ outcome |-> "reverted",
               nodes |-> IF ref # Undefined /\ ref.id = node.id
                         THEN updateNode(ns, node.id,
                                         [ position |-> ref.position,
                                           parentNode |-> ref.parentNode,
                                           extent |-> Undefined ])
                         ELSE ns,
               dragRef |-> ref, newParent |-> parentId, center |-> nodeCenter ]
        ELSE IF newParent # Undefined
        THEN [ outcome |-> IF node.parentNode # newParent.id THEN "reparented" ELSE "kept",
               nodes |-> IF node.parentNode # newParent.id
                         THEN updateNode(ns, node.id,
                                         [ parentNode |-> newParent.id,
                                           position |-> Minus(nodeAbs,
                                               getAbsolutePosition(ns, newParent)) ])
                         ELSE ns,
               dragRef |-> Undefined, newParent |-> parentId, center |-> nodeCenter ]
        ELSE [ outcome |-> IF node.parentNode # Undefined THEN "orphaned" ELSE "kept",
               nodes |-> IF node.parentNode # Undefined
                         THEN updateNode(ns, node.id,
                                         [ parentNode |-> Undefined, position |-> nodeAbs ])
                         ELSE ns,
               dragRef |-> Undefined, newParent |-> parentId, center |-> nodeCenter ]

(***************************************************************************)
(* Cost estimation (Canvas.tsx 57-79, store.ts setCosts, api.ts             *)
(* estimateCosts).                                                         *)
(***************************************************************************)
DEBOUNCE_MS == 500

setCosts(total, breakdown) == [ totalCost |-> total, costBreakdown |-> breakdown ]

\* The node properties that may hold undefined.
Optional == { "extent", "parentNode", "positionAbsolute" }

\* JSON.stringify of a node: a property holding undefined is left out.
stringify(obj) ==
    [ f \in { g \in DOMAIN obj : ~(g \in Optional /\ obj[g] = Undefined) } |-> obj[f] ]

stringifyAll(objs) == [ i \in 1..Len(objs) |-> stringify(objs[i]) ]

\* The request body estimateCosts(nodes) posts.
estimateCosts(ns) == [ nodes |-> stringifyAll(ns), edges |-> << >> ]

\* The answer of the pricing service to a request body: a total and a
\* breakdown keyed by node id.  The service is outside the repository; it is
\* taken to price every node of the request at one unit.
priced(body) ==
    [ total_monthly_cost |-> Len(body.nodes),
      breakdown |-> [ id \in { body.nodes[i].id : i \in 1..Len(body.nodes) } |-> 1 ] ]

\* setTimeout(callback, 500) of one run of the effect; the callback closes
\* over the node list of that render.
schedule(ns) == [ nodes |-> ns, left |-> DEBOUNCE_MS ]

\* Variant: the effect has no cleanup, an earlier timeout stays pending.
costEffect_NoCleanup(ts, ns) == Append(ts, schedule(ns))

\* A re-run of the effect after the node list changed to ns: the cleanup of
\* the previous run clears the timeout that run had set (the newest one, if
\* it is still pending), then a new timeout is set.
costEffect(ts, ns) ==
    Append(SubSeq(ts, 1, Len(ts) - 1), schedule(ns))

\* Variant: issuing a request abandons the requests still in flight.
fetchCosts_CancelsOlder(reqs, ns, seq) ==
    << [ body |-> estimateCosts(ns), seq |-> seq ] >>

\* fetchCosts() up to its await: the request joins those in flight.  seq
\* numbers the requests in the order they are issued (history).
fetchCosts(reqs, ns, seq) ==
    Append(reqs, [ body |-> estimateCosts(ns), seq |-> seq ])

\* Variant: a failure clears the figures.
fetchCostsFailed_Clears(cs) == setCosts(0, << >>)

\* The catch branch of fetchCosts: the error is logged, nothing is written.
fetchCostsFailed(cs) == cs

\* fetchCosts() after its await resolved with response.
fetchCostsResolved(cs, response) ==
    setCosts(response.total_monthly_cost, response.breakdown)

\* History of the adapter: its last step, the time since the node list last
\* changed (capped at DEBOUNCE_MS), the changes of the current burst (capped
\* at 2), the requests issued since the burst began and in all, the request
\* the last step was about and the newest request answered so far.
NoCostEvent ==
    [ op |-> "mounted", quiet |-> 0, changes |-> 0, burstIssued |-> 0, issued |-> 0,
      request |-> Undefined, answered |-> 0 ]

noteChange(ev) ==
    [ ev EXCEPT !.op = "changed", !.quiet = 0, !.request = Undefined,
                !.changes = IF ev.quiet < DEBOUNCE_MS
                            THEN (IF ev.changes < 2 THEN ev.changes + 1 ELSE 2)
                            ELSE 1,
                !.burstIssued = IF ev.quiet < DEBOUNCE_MS THEN ev.burstIssued ELSE 0 ]

\* The render after a handler wrote the node list: the effect runs again.
NodesWritten ==
    /\ timers' = costEffect(timers, nodes')
    /\ cev' = noteChange(cev)
    /\ UNCHANGED << inflight, costs >>

CostUntouched == UNCHANGED << timers, inflight, costs, cev >>

\* The adapter right after the canvas was mounted with node list ns.
Mounted(ns, changes) ==
    /\ timers = << schedule(ns) >>
    /\ inflight = << >>
    /\ costs = setCosts(0, << >>)
    /\ cev = [ NoCostEvent EXCEPT !.changes = changes,
                                  !.op = IF changes = 0 THEN "mounted" ELSE "changed" ]

(***************************************************************************)
(* The state machine.                                                      *)
(***************************************************************************)
NoEvent ==
    [ op |-> "none", id |-> Undefined, kind |-> "", point |-> Undefined,
      parent |-> Undefined, pre |-> << >>, preEdges |-> << >>, prev |-> Undefined ]

NoProbe == [ applied |-> FALSE ]

Init ==
    /\ nodes = << >>
    /\ edges = << >>
    /\ dragRef = Undefined
    /\ dragging = Undefined
    /\ clock = 0
    /\ budget = MaxGestures
    /\ last = NoEvent
    /\ probe = NoProbe
    /\ project = Undefined
    /\ Mounted(<< >>, 0)

\* A palette drop of `type` released at mousePos.  Drops are separate
\* pointer gestures, so Date.now() has advanced since the previous one.
Drop(type, mousePos) ==
    /\ dragging = Undefined
    /\ Len(nodes) < MaxNodes
    /\ budget > 0
    /\ LET r == onDrop(nodes, type, clock + 1, mousePos) IN
        /\ nodes' = r.nodes
        /\ clock' = IF r.valid THEN clock + 1 ELSE clock
        /\ budget' = IF r.valid THEN budget - 1 ELSE budget
        /\ last' = IF r.valid
                   THEN [ op |-> "dropped", id |-> r.node.id, kind |-> type,
                          point |-> mousePos, parent |-> r.node.parentNode,
                          pre |-> nodes, preEdges |-> edges, prev |-> Undefined ]
                   ELSE [ NoEvent EXCEPT !.op = "dropRejected", !.kind = type,
                                         !.pre = nodes, !.preEdges = edges ]
        /\ IF r.valid THEN NodesWritten ELSE CostUntouched
    /\ UNCHANGED << project, edges, dragRef, dragging, probe >>

\* History: when the handler that ran last was the drag-stop of a gesture on
\* the node with this id, where that gesture found the node (parent,
\* relative and drawn absolute position) and how it ended.
previousGesture(ev, id) ==
    IF ev.op \in { "ignored", "reverted", "reparented", "orphaned", "kept" } /\ ev.id = id
    THEN LET was == find(ev.pre, id)
         IN  [ op |-> ev.op, parentNode |-> was.parentNode, position |-> was.position,
               abs |-> flowAbsolute(ev.pre, was), center |-> ev.point ]
    ELSE Undefined

\* Variant: the snapshot is taken only when dragRef.current holds none.
DragStart_KeepsSnapshot(i) ==
    /\ dragging = Undefined
    /\ budget > 0
    /\ i \in 1..Len(nodes)
    /\ dragRef' = IF dragRef = Undefined
                  THEN onNodeDragStart(flowNode(nodes, nodes[i]))
                  ELSE dragRef
    /\ dragging' = nodes[i].id
    /\ budget' = budget - 1
    /\ last' = [ op |-> "dragStart", id |-> nodes[i].id, kind |-> nodes[i].data.type,
                 point |-> Undefined, parent |-> Undefined,
                 pre |-> nodes, preEdges |-> edges,
                 prev |-> previousGesture(last, nodes[i].id),
                 stale |-> dragRef ]
    /\ UNCHANGED << project, nodes, edges, clock, probe >>
    /\ CostUntouched

\* The pointer goes down on the i-th node and React Flow starts a drag.  The
\* history keeps, as stale, what dragRef.current held when the gesture began.
DragStart(i) ==
    /\ dragging = Undefined
    /\ budget > 0
    /\ i \in 1..Len(nodes)
    /\ dragRef' = onNodeDragStart(flowNode(nodes, nodes[i]))
    /\ dragging' = nodes[i].id
    /\ budget' = budget - 1
    /\ last' = [ op |-> "dragStart", id |-> nodes[i].id, kind |-> nodes[i].data.type,
                 point |-> Undefined, parent |-> Undefined,
                 pre |-> nodes, preEdges |-> edges,
                 prev |-> previousGesture(last, nodes[i].id),
                 stale |-> dragRef ]
    /\ UNCHANGED << project, nodes, edges, clock, probe >>
    /\ CostUntouched

\* The pointer moves: React Flow puts the dragged node's top-left corner at
\* the absolute point a and reports the position change to the store.
DragMove(a) ==
    /\ dragging # Undefined
    /\ LET node == find(nodes, dragging)
           parentAbs == flowAbsolute(nodes, find(nodes, node.parentNode))
       IN  nodes' = onNodesChange(nodes, [ id |-> node.id,
                                           position |-> Minus(a, parentAbs),
                                           positionAbsolute |-> a ])
    /\ last' = [ last EXCEPT !.op = "dragMove" ]
    /\ NodesWritten
    /\ UNCHANGED << project, edges, dragRef, dragging, clock, budget, probe >>

\* The pointer is released: React Flow reports the end of the drag to the
\* store (a position change carrying dragging: false only, so the node list
\* is written) and onNodeDragStop runs on the dragged node.
DragStop ==
    /\ dragging # Undefined
    /\ LET node == flowNode(nodes, find(nodes, dragging))
           r == onNodeDragStop(nodes, dragRef, node)
       IN  /\ nodes' = r.nodes
           /\ dragRef' = r.dragRef
           /\ last' = [ last EXCEPT !.op = r.outcome, !.parent = r.newParent,
                                    !.point = r.center ]
    /\ dragging' = Undefined
    /\ NodesWritten
    /\ UNCHANGED << project, edges, clock, budget, probe >>

\* addEdge(connection, edges) of React Flow: the edge is appended unless an
\* edge with the same source and target is already there.
addEdge(connection, es) ==
    IF \E k \in 1..Len(es) : es[k].source = connection.source
                               /\ es[k].target = connection.target
    THEN es
    ELSE Append(es, [ id |-> << connection.source, connection.target >>,
                      source |-> connection.source, target |-> connection.target ])

\* The operator draws a line from the i-th node to the j-th (store onConnect).
Connect(i, j) ==
    /\ dragging = Undefined
    /\ budget > 0
    /\ Len(edges) < MaxEdges
    /\ i \in 1..Len(nodes) /\ j \in 1..Len(nodes) /\ i # j
    /\ edges' = addEdge([ source |-> nodes[i].id, target |-> nodes[j].id ], edges)
    /\ budget' = budget - 1
    /\ last' = [ NoEvent EXCEPT !.op = "connected", !.pre = nodes, !.preEdges = edges ]
    /\ UNCHANGED << project, nodes, dragRef, dragging, clock, probe >>
    /\ CostUntouched

Next ==
    \/ \E type \in PaletteTypes, p \in Points : Drop(type, p)
    \/ \E i \in 1..MaxNodes : DragStart(i)
    \/ \E a \in Points : DragMove(a)
    \/ DragStop
    \/ \E i, j \in 1..MaxNodes : Connect(i, j)

Spec == Init /\ [][Next]_vars

\* The canvas after a network was dropped at the origin and a subnet inside
\* it: the state two palette drops lead to.
WithVpc == onDrop(<< >>, "vpc", 1, << 0, 0 >>)
WithSubnet == onDrop(WithVpc.nodes, "subnet", 2, << 0, 0 >>)

InitDeep ==
    /\ nodes = WithSubnet.nodes
    /\ edges = << >>
    /\ dragRef = Undefined
    /\ dragging = Undefined
    /\ clock = 2
    /\ budget = MaxDeepGestures
    /\ last = [ op |-> "dropped", id |-> WithSubnet.node.id, kind |-> "subnet",
                point |-> << 0, 0 >>, parent |-> WithSubnet.node.parentNode,
                pre |-> WithVpc.nodes, preEdges |-> << >>, prev |-> Undefined ]
    /\ probe = NoProbe
    /\ project = Undefined
    /\ Mounted(WithSubnet.nodes, 2)

SpecDeep == InitDeep /\ [][Next]_vars

\* The canvas after an object store was dropped inside that subnet as well.
WithBucket == onDrop(WithSubnet.nodes, "s3", 3, << 0, 0 >>)

InitInside ==
    /\ nodes = WithBucket.nodes
    /\ edges = << >>
    /\ dragRef = Undefined
    /\ dragging = Undefined
    /\ clock = 3
    /\ budget = MaxDeepGestures
    /\ last = [ op |-> "dropped", id |-> WithBucket.node.id, kind |-> "s3",
                point |-> << 0, 0 >>, parent |-> WithBucket.node.parentNode,
                pre |-> WithSubnet.nodes, preEdges |-> << >>, prev |-> Undefined ]
    /\ probe = NoProbe
    /\ project = Undefined
    /\ Mounted(WithBucket.nodes, 2)

SpecInside == InitInside /\ [][Next]_vars

(***************************************************************************)
(* The canvas with the cost adapter's timer, requests and answers.         *)
(***************************************************************************)
\* The nodes React Flow deletes when Backspace is pressed with the node id
\* selected: that node, and every node met later in the list whose parent is
\* being deleted.
RECURSIVE nodesToRemove(_, _, _)
nodesToRemove(ns, id, res) ==
    IF ns = << >> THEN res
    ELSE LET n == Head(ns)
             hit == n.id = id \/ (n.parentNode # Undefined /\ n.parentNode \in res)
         IN  nodesToRemove(Tail(ns), id, IF hit THEN res \cup { n.id } ELSE res)

\* applyNodeChanges / applyEdgeChanges for the 'remove' changes of a deletion.
onNodesRemove(ns, ids) == SelectSeq(ns, LAMBDA n : n.id \notin ids)
onEdgesRemove(es, ids) ==
    SelectSeq(es, LAMBDA e : e.source \notin ids /\ e.target \notin ids)

\* The operator selects the i-th node and deletes it.
Remove(i) ==
    /\ dragging = Undefined
    /\ budget > 0
    /\ i \in 1..Len(nodes)
    /\ LET ids == nodesToRemove(nodes, nodes[i].id, {})
       IN  /\ nodes' = onNodesRemove(nodes, ids)
           /\ edges' = onEdgesRemove(edges, ids)
    /\ budget' = budget - 1
    /\ last' = [ NoEvent EXCEPT !.op = "removed", !.id = nodes[i].id,
                                !.kind = nodes[i].data.type,
                                !.pre = nodes, !.preEdges = edges ]
    /\ NodesWritten
    /\ UNCHANGED << project, dragRef, dragging, clock, probe >>

\* TickMs milliseconds pass while a timeout is pending and none is due.
Tick ==
    /\ timers # << >>
    /\ \A k \in 1..Len(timers) : timers[k].left > 0
    /\ timers' = [ k \in 1..Len(timers) |->
                     [ timers[k] EXCEPT !.left = IF @ > TickMs THEN @ - TickMs ELSE 0 ] ]
    /\ cev' = [ cev EXCEPT !.op = "tick", !.request = Undefined,
                           !.quiet = IF @ + TickMs < DEBOUNCE_MS
                                     THEN @ + TickMs ELSE DEBOUNCE_MS ]
    /\ UNCHANGED << project, nodes, edges, dragRef, dragging, clock, budget, last, probe,
                    inflight, costs >>

\* The oldest timeout is due and its callback runs (lines 59-76): an empty
\* node list resets the figures, any other list is sent for an estimate.
Expire ==
    /\ timers # << >>
    /\ Head(timers).left = 0
    /\ LET t == Head(timers) IN
        IF Len(t.nodes) = 0
        THEN /\ costs' = setCosts(0, << >>)
             /\ inflight' = inflight
             /\ cev' = [ cev EXCEPT !.op = "reset", !.request = Undefined ]
        ELSE /\ cev.issued < MaxRequests
             /\ inflight' = fetchCosts(inflight, t.nodes, cev.issued + 1)
             /\ costs' = costs
             /\ cev' = [ cev EXCEPT
                         !.op = "requested", !.issued = @ + 1, !.burstIssued = @ + 1,
                         !.request = [ seq |-> cev.issued + 1,
                                       body |-> estimateCosts(t.nodes),
                                       overlaps |-> { inflight[k].seq : k \in 1..Len(inflight) } ] ]
    /\ timers' = Tail(timers)
    /\ UNCHANGED << project, nodes, edges, dragRef, dragging, clock, budget, last, probe >>

\* The list without its k-th element.
without(seq, k) == SubSeq(seq, 1, k - 1) \o SubSeq(seq, k + 1, Len(seq))

\* The k-th request in flight is answered by the pricing service.
Respond(k) ==
    /\ k \in 1..Len(inflight)
    /\ costs' = fetchCostsResolved(costs, priced(inflight[k].body))
    /\ inflight' = without(inflight, k)
    /\ cev' = [ cev EXCEPT !.op = "responded", !.request = inflight[k],
                           !.answered = IF inflight[k].seq > @ THEN inflight[k].seq ELSE @ ]
    /\ UNCHANGED << project, nodes, edges, dragRef, dragging, clock, budget, last, probe, timers >>

\* The k-th request in flight fails (network error, error status other than
\* 401, malformed answer): estimateCosts throws.
Fail(k) ==
    /\ k \in 1..Len(inflight)
    /\ costs' = fetchCostsFailed(costs)
    /\ inflight' = without(inflight, k)
    /\ cev' = [ cev EXCEPT
                !.op = "failed",
                !.request = [ seq |-> inflight[k].seq, body |-> inflight[k].body,
                              before |-> [ costs |-> costs, timers |-> timers,
                                           others |-> without(inflight, k),
                                           nodes |-> nodes, edges |-> edges ] ] ]
    /\ UNCHANGED << project, nodes, edges, dragRef, dragging, clock, budget, last, probe, timers >>

InitCost ==
    /\ nodes = << >>
    /\ edges = << >>
    /\ dragRef = Undefined
    /\ dragging = Undefined
    /\ clock = 0
    /\ budget = MaxCostGestures
    /\ last = NoEvent
    /\ probe = NoProbe
    /\ project = Undefined
    /\ Mounted(<< >>, 0)

NextCost ==
    \/ \E type \in PaletteTypes, p \in Points : Drop(type, p)
    \/ \E i \in 1..MaxNodes : DragStart(i)
    \/ \E a \in Points : DragMove(a)
    \/ DragStop
    \/ \E i \in 1..MaxNodes : Remove(i)
    \/ Tick
    \/ Expire
    \/ \E k \in 1..MaxRequests : Respond(k)
    \/ \E k \in 1..MaxRequests : Fail(k)

SpecCost == InitCost /\ [][NextCost]_vars

(***************************************************************************)
(* The canvas with palette drops whose Date.now() readings may coincide.   *)
(***************************************************************************)
\* A palette drop handled while Date.now() still returns the reading the
\* previous drop got (line 272 reads the clock once per drop).
DropAtOnce(type, mousePos) ==
    /\ dragging = Undefined
    /\ clock > 0
    /\ Len(nodes) < MaxNodes
    /\ budget > 0
    /\ LET r == onDrop(nodes, type, clock, mousePos) IN
        /\ nodes' = r.nodes
        /\ budget' = IF r.valid THEN budget - 1 ELSE budget
        /\ last' = IF r.valid
                   THEN [ op |-> "dropped", id |-> r.node.id, kind |-> type,
                          point |-> mousePos, parent |-> r.node.parentNode,
                          pre |-> nodes, preEdges |-> edges, prev |-> Undefined ]
                   ELSE [ NoEvent EXCEPT !.op = "dropRejected", !.kind = type,
                                         !.pre = nodes, !.preEdges = edges ]
        /\ IF r.valid THEN NodesWritten ELSE CostUntouched
    /\ UNCHANGED << project, edges, dragRef, dragging, clock, probe >>

NextClock ==
    \/ \E type \in PaletteTypes, p \in Points : Drop(type, p)
    \/ \E type \in PaletteTypes, p \in Points : DropAtOnce(type, p)

InitClock ==
    /\ nodes = << >>
    /\ edges = << >>
    /\ dragRef = Undefined
    /\ dragging = Undefined
    /\ clock = 0
    /\ budget = MaxDeepGestures
    /\ last = NoEvent
    /\ probe = NoProbe
    /\ project = Undefined
    /\ Mounted(<< >>, 0)

SpecClock == InitClock /\ [][NextClock]_vars

(***************************************************************************)
(* The canvas with drops and releases on the borders of the containers.    *)
(***************************************************************************)
\* The top-left and bottom-right corners of the subnet at the origin, a point
\* on its right and one on its bottom edge, the point beside its
\* bottom-right corner, the bottom-right corner of the network and the point
\* beside that.
EdgePoints ==
    { << 0, 0 >>, << 250, 180 >>, << 250, 90 >>, << 125, 180 >>, << 251, 180 >>,
      << 500, 400 >>, << 501, 400 >> }

NextEdge ==
    \/ \E type \in PaletteTypes, p \in EdgePoints : Drop(type, p)
    \/ \E i \in 1..MaxNodes : DragStart(i)
    \/ /\ dragging # Undefined
       /\ \E p \in EdgePoints : DragMove(cornerAt(find(nodes, dragging), p))
    \/ DragStop

SpecEdge == InitDeep /\ [][NextEdge]_vars

(***************************************************************************)
(* The canvas with deletion, from a diagram whose object store was dropped *)
(* before the network and the subnet beside it.                            *)
(***************************************************************************)
BucketFirst == onDrop(<< >>, "s3", 1, << 0, 300 >>)
BucketThenVpc == onDrop(BucketFirst.nodes, "vpc", 2, << 0, 0 >>)
BucketThenSubnet == onDrop(BucketThenVpc.nodes, "subnet", 3, << 200, 0 >>)

InitRemove ==
    /\ nodes = BucketThenSubnet.nodes
    /\ edges = << >>
    /\ dragRef = Undefined
    /\ dragging = Undefined
    /\ clock = 3
    /\ budget = MaxDeepGestures
    /\ last = [ op |-> "dropped", id |-> BucketThenSubnet.node.id, kind |-> "subnet",
                point |-> << 200, 0 >>, parent |-> BucketThenSubnet.node.parentNode,
                pre |-> BucketThenVpc.nodes, preEdges |-> << >>, prev |-> Undefined ]
    /\ probe = NoProbe
    /\ project = Undefined
    /\ Mounted(BucketThenSubnet.nodes, 2)

NextRemove ==
    \/ \E type \in PaletteTypes, p \in Points : Drop(type, p)
    \/ \E i \in 1..MaxNodes : DragStart(i)
    \/ \E a \in Points : DragMove(a)
    \/ DragStop
    \/ \E i \in 1..MaxNodes : Remove(i)

SpecRemove == InitRemove /\ [][NextRemove]_vars

(***************************************************************************)
(* The store functions and the code-generation request on their own.       *)
(***************************************************************************)
\* The canvas after a line was drawn from the subnet to the object store.
WithEdge ==
    addEdge([ source |-> WithSubnet.node.id, target |-> WithBucket.node.id ], << >>)

\* Partial<Node> payloads: a position, a parent with a position, the three
\* fields onNodeDragStop writes back on a revert, a size, and no field.
Payloads ==
    { [ position |-> p ] : p \in { << 200, 0 >>, << 0, 300 >> } }
    \cup { [ parentNode |-> q, position |-> << 200, 0 >> ] :
               q \in { Undefined, WithVpc.node.id } }
    \cup { [ position |-> << 0, 0 >>, parentNode |-> WithVpc.node.id, extent |-> Undefined ],
           [ style |-> [ width |-> 300, height |-> 200 ] ],
           << >> }

\* Ids a store function is called with: those of the stored nodes and one
\* that names no node.
CallIds == { nodes[i].id : i \in 1..Len(nodes) } \cup { << "ec2", 0 >> }

InitStore ==
    /\ nodes = WithBucket.nodes
    /\ edges = WithEdge
    /\ dragRef = Undefined
    /\ dragging = Undefined
    /\ clock = 3
    /\ budget = MaxStoreOps
    /\ last = NoEvent
    /\ probe = NoProbe
    /\ project = Undefined
    /\ Mounted(WithBucket.nodes, 2)

\* store.updateNode(nodeId, payload) is called.
UpdateNode(nodeId, payload) ==
    /\ budget > 0
    /\ nodes' = updateNode(nodes, nodeId, payload)
    /\ budget' = budget - 1
    /\ probe' = [ applied |-> TRUE, op |-> "updateNode", id |-> nodeId,
                  payload |-> payload, pre |-> nodes, preEdges |-> edges ]
    /\ NodesWritten
    /\ UNCHANGED << project, edges, dragRef, dragging, clock, last >>

\* Attribute changes the properties panel makes: one field of the form, two
\* fields, a field the node did not have, and none.
NewData ==
    { [ label |-> "renamed" ],
      [ versioning |-> TRUE ],
      [ label |-> "renamed", cidr |-> "10.0.9.0/24" ],
      [ securityRules |-> << "ssh" >> ],
      << >> }

\* store.updateNodeData(nodeId, newData) is called.
UpdateNodeData(nodeId, newData) ==
    /\ budget > 0
    /\ nodes' = updateNodeData(nodes, nodeId, newData)
    /\ budget' = budget - 1
    /\ probe' = [ applied |-> TRUE, op |-> "updateNodeData", id |-> nodeId,
                  payload |-> newData, pre |-> nodes, preEdges |-> edges ]
    /\ NodesWritten
    /\ UNCHANGED << project, edges, dragRef, dragging, clock, last >>

\* Nodes store.addNode is called with: what onDrop builds for a palette type
\* (Canvas.tsx 270-326), parentless or inside the subnet.
NewNodes ==
    { newNodeAt(type, clock + 1, << 0, 300 >>) : type \in { "vpc", "ec2" } }
    \cup { [ newNodeAt("rds", clock + 1, << 0, 0 >>)
               EXCEPT !.parentNode = WithSubnet.node.id ] }

\* store.addNode(node) is called.
AddNode(node) ==
    /\ budget > 0
    /\ Len(nodes) < MaxNodes
    /\ nodes' = addNode(nodes, node)
    /\ clock' = clock + 1
    /\ budget' = budget - 1
    /\ probe' = [ applied |-> TRUE, op |-> "addNode", node |-> node,
                  pre |-> nodes, preEdges |-> edges ]
    /\ NodesWritten
    /\ UNCHANGED << project, edges, dragRef, dragging, last >>

\* The body handleGenerate posts (PropertiesPanel lines 108-114).
generateBody(ns, es, projectId) ==
    [ nodes |-> stringifyAll(ns), edges |-> es, project_id |-> projectId ]

\* The operator presses "Generate Terraform"; the button is shown while a
\* node is selected.
Generate ==
    /\ nodes # << >>
    /\ probe' = [ applied |-> TRUE, op |-> "generate",
                  body |-> generateBody(nodes, edges, 1) ]
    /\ UNCHANGED << project, nodes, edges, dragRef, dragging, clock, budget, last >>
    /\ CostUntouched

\* The update handleSave sends (EditorPage lines 496-498), as JSON.stringify
\* writes it in updateProject (api.ts 150-155).
saveBody(ns, es) == [ diagram_data |-> [ nodes |-> stringifyAll(ns), edges |-> es ] ]

\* What the server keeps of an update and returns as data.diagram_data on a
\* later getProject: the diagram snapshot, verbatim.
persisted(body) == body.diagram_data

\* data.diagram_data.nodes.forEach(node => store.addNode(node)).
RECURSIVE addEach(_, _)
addEach(ns, list) ==
    IF list = << >> THEN ns ELSE addEach(addNode(ns, Head(list)), Tail(list))

\* Variant: the store is not cleared before the saved nodes are added.
loadProject_KeepsStore(ns, es, data) ==
    [ nodes |-> IF data # Undefined THEN addEach(ns, data.nodes) ELSE ns,
      edges |-> IF data # Undefined THEN data.edges ELSE es ]

\* loadProject once getProject has answered (EditorPage lines 463-477): the
\* store is cleared, the saved nodes are added one by one and the saved
\* edges are set.  data is diagram_data, Undefined for a project without one.
loadProject(ns, es, data) ==
    [ nodes |-> IF data # Undefined THEN addEach(<< >>, data.nodes) ELSE << >>,
      edges |-> IF data # Undefined THEN data.edges ELSE << >> ]

\* The operator presses Save and the server stores the update.
Save ==
    /\ project' = persisted(saveBody(nodes, edges))
    /\ last' = [ NoEvent EXCEPT !.op = "saved", !.pre = nodes, !.preEdges = edges ]
    /\ probe' = [ applied |-> TRUE, op |-> "save", pre |-> nodes, preEdges |-> edges ]
    /\ UNCHANGED << nodes, edges, dragRef, dragging, clock, budget >>
    /\ CostUntouched

\* The editor page is opened on the project and its diagram is loaded.
Load ==
    /\ LET r == loadProject(nodes, edges, project)
       IN  /\ nodes' = r.nodes
           /\ edges' = r.edges
    /\ probe' = [ applied |-> TRUE, op |-> "load", pre |-> nodes, preEdges |-> edges ]
    /\ NodesWritten
    /\ UNCHANGED << project, dragRef, dragging, clock, budget, last >>

NextStore ==
    \/ \E id \in CallIds, payload \in Payloads : UpdateNode(id, payload)
    \/ \E id \in CallIds, newData \in NewData : UpdateNodeData(id, newData)
    \/ \E node \in NewNodes : AddNode(node)
    \/ Generate
    \/ Save
    \/ Load

SpecStore == InitStore /\ [][NextStore]_vars

(***************************************************************************)
(* The placement rules applied on their own.                               *)
(***************************************************************************)
\* Node types registered with the canvas (Canvas.tsx nodeTypes).
NodeTypes == { "vpc", "subnet", "service", "eks", "eks-node-group" }

\* The fields of a node validatePlacement reads.
shape(type, dataType) == [ type |-> type, data |-> [ type |-> dataType ] ]

\* The shapes the canvas gives a node of each resource: a container keeps
\* its palette type, every other resource is a 'service' node (onDrop line
\* 273); a saved diagram may also hold a node group under its own type.
WellFormed ==
    { shape("vpc", "vpc"), shape("subnet", "subnet"), shape("eks", "eks"),
      shape("service", "eks-node-group"), shape("eks-node-group", "eks-node-group"),
      shape("service", "ec2"), shape("service", "rds"), shape("service", "s3") }

InitRules ==
    /\ nodes = << >>
    /\ edges = << >>
    /\ dragRef = Undefined
    /\ dragging = Undefined
    /\ clock = 0
    /\ budget = 0
    /\ last = NoEvent
    /\ probe = NoProbe
    /\ project = Undefined
    /\ Mounted(<< >>, 0)

\* validatePlacement is called with a node and no parent.
ValidateOrphan(node) ==
    /\ probe' = [ applied |-> TRUE, node |-> node, parentNode |-> Undefined,
                  result |-> validatePlacement(node, Undefined) ]
    /\ UNCHANGED << project, nodes, edges, dragRef, dragging, clock, budget, last >>
    /\ CostUntouched

\* validatePlacement is called with a node and a candidate parent.
ValidateUnder(node, parentNode) ==
    /\ probe' = [ applied |-> TRUE, node |-> node, parentNode |-> parentNode,
                  result |-> validatePlacement(node, parentNode) ]
    /\ UNCHANGED << project, nodes, edges, dragRef, dragging, clock, budget, last >>
    /\ CostUntouched

\* A resource kind the palette does not offer and the rules do not name, as
\* node.type and as data.type of a node.
OtherTypes == { "lambda" }

NextRules ==
    \/ \E t \in NodeTypes \cup OtherTypes, d \in AllPaletteTypes \cup OtherTypes :
            ValidateOrphan(shape(t, d))
    \/ \E t \in NodeTypes \cup OtherTypes, d \in AllPaletteTypes \cup OtherTypes,
            p \in WellFormed :
            ValidateUnder(shape(t, d), p)

SpecRules == InitRules /\ [][NextRules]_vars

(***************************************************************************)
(* Properties.                                                             *)
(***************************************************************************)
StopOutcomes == { "ignored", "reverted", "reparented", "orphaned", "kept" }

\* The containment category of a node.
Category(n) ==
    IF n.data.type = "eks-node-group" THEN "node-group-container"
    ELSE IF n.type = "vpc" THEN "network-container"
    ELSE IF n.type = "subnet" THEN "subnet-container"
    ELSE IF n.type = "eks" THEN "cluster-container"
    ELSE "leaf-resource"

NoCategory == "none"

\* The containment table: the parent category a child category requires.
RequiredParent(cat) ==
    CASE cat = "network-container" -> NoCategory
      [] cat = "subnet-container" -> "network-container"
      [] cat = "cluster-container" -> "subnet-container"
      [] cat = "node-group-container" -> "cluster-container"
      [] cat = "leaf-resource" -> "subnet-container"

\* The rectangle a container is drawn at contains the point p.
Covers(ns, c, p) == isInside(p, flowAbsolute(ns, c), c.width, c.height)

SameExceptNode(ns, before, id) ==
    /\ Len(ns) = Len(before)
    /\ \A i \in 1..Len(ns) : ns[i].id # id => ns[i] = before[i]

\* C1: after a drag-stop whose placement check is invalid, the dragged
\* node's position and parentId are those it had at drag start, and every
\* other node and every edge is as it was at drag start.
C1_InvalidDragRestores ==
    last.op = "reverted" =>
        /\ find(nodes, last.id).position = find(last.pre, last.id).position
        /\ find(nodes, last.id).parentNode = find(last.pre, last.id).parentNode
        /\ SameExceptNode(nodes, last.pre, last.id)
        /\ edges = last.preEdges

\* A reverted drag that had moved a parented node away from where it is drawn again.
C1_Witness ==
    /\ last.op = "reverted"
    /\ Len(nodes) >= 2
    /\ find(nodes, last.id).parentNode # Undefined
    /\ find(nodes, last.id).positionAbsolute # Undefined
    /\ find(nodes, last.id).positionAbsolute # flowAbsolute(nodes, find(nodes, last.id))

\* C2: every parentId names a stored node of the category the containment
\* table requires for the child, and no network-container has a parent.
C2_ParentsFollowTable ==
    \A i \in 1..Len(nodes) :
        nodes[i].parentNode # Undefined =>
            /\ find(nodes, nodes[i].parentNode) # Undefined
            /\ Category(find(nodes, nodes[i].parentNode)) = RequiredParent(Category(nodes[i]))

\* A drag-stop has just moved a node under a new parent.
C2_Witness ==
    /\ last.op = "reparented"
    /\ find(nodes, last.id).parentNode = last.parent
    /\ find(last.pre, last.id).parentNode # last.parent

\* C3: every subnet, cluster, node group and every leaf resource other than
\* an object store is stored with a parentId.
C3_NoOrphans ==
    \A i \in 1..Len(nodes) :
        (Category(nodes[i]) # "network-container" /\ nodes[i].data.type # "s3")
            => nodes[i].parentNode # Undefined

\* A compute instance was dragged out of every subnet and put back by the revert.
C3_Witness ==
    /\ last.op = "reverted"
    /\ last.kind = "ec2"
    /\ last.parent = Undefined
    /\ find(nodes, last.id).parentNode # Undefined

\* C4: a drag-stop that puts the center of a node group inside the rectangle
\* of a cluster selects a cluster holding the center as the new parent and
\* is accepted.
C4_NodeGroupDragAccepted ==
    ( /\ last.op \in StopOutcomes
      /\ last.kind = "eks-node-group"
      /\ \E i \in 1..Len(nodes) :
            Category(nodes[i]) = "cluster-container" /\ Covers(nodes, nodes[i], last.point) )
    => /\ last.op # "reverted"
       /\ last.parent # Undefined
       /\ Category(find(nodes, last.parent)) = "cluster-container"
       /\ Covers(nodes, find(nodes, last.parent), last.point)

\* C5: for every stored node, the position getAbsolutePosition resolves is
\* its parent's resolved position plus its own relative position, as the
\* store holds them now.
C5_AbsoluteIsParentPlusRelative ==
    \A i \in 1..Len(nodes) :
        getAbsolutePosition(nodes, nodes[i]) =
            Plus(getAbsolutePosition(nodes, find(nodes, nodes[i].parentNode)),
                 nodes[i].position)

\* The node a palette drop of dataType creates, as far as the rules read it.
droppedShape(dataType) ==
    shape(IF isContainerType(dataType) THEN dataType ELSE "service", dataType)

CategoryOrNone(n) == IF n = Undefined THEN NoCategory ELSE Category(n)

\* One node of each category, to stand for a candidate parent.
Representative(cat) ==
    CASE cat = NoCategory -> Undefined
      [] cat = "network-container" -> shape("vpc", "vpc")
      [] cat = "subnet-container" -> shape("subnet", "subnet")
      [] cat = "cluster-container" -> shape("eks", "eks")
      [] cat = "node-group-container" -> shape("service", "eks-node-group")
      [] cat = "leaf-resource" -> shape("service", "ec2")

\* C6: for every child of a table category other than an object store and
\* every candidate parent category or none, validatePlacement is valid
\* exactly when the candidate is the parent the table requires; and the
\* result depends on the child's category, its resource kind and the
\* parent's category only.
C6_RulesAgreeWithTable ==
    (probe.applied /\ probe.node \in WellFormed) =>
        /\ probe.node.data.type # "s3" =>
               ( probe.result.valid <=>
                   CategoryOrNone(probe.parentNode) = RequiredParent(Category(probe.node)) )
        /\ probe.result = validatePlacement(droppedShape(probe.node.data.type),
                                            Representative(CategoryOrNone(probe.parentNode)))

\* A node group, stored as a 'service' node, was accepted under a cluster.
C6_Witness ==
    /\ probe.applied
    /\ probe.node = shape("service", "eks-node-group")
    /\ probe.parentNode # Undefined
    /\ probe.parentNode.type = "eks"
    /\ probe.result.valid

\* C7: whatever the child's resource kind, a candidate parent whose category
\* is not the one the table requires for the child is invalid.
C7_WrongParentInvalid ==
    ( /\ probe.applied
      /\ probe.node \in WellFormed
      /\ probe.parentNode # Undefined
      /\ Category(probe.parentNode) # RequiredParent(Category(probe.node)) )
    => ~probe.result.valid

\* C8: a palette drop whose placement check fails leaves the node and edge
\* collections as they were.
C8_RejectedDropChangesNothing ==
    last.op = "dropRejected" => (nodes = last.pre /\ edges = last.preEdges)

\* A compute instance was rejected on a canvas holding nodes and an edge
\* but no subnet.
C8_Witness ==
    /\ last.op = "dropRejected"
    /\ last.kind = "ec2"
    /\ Len(nodes) >= 2
    /\ Len(edges) >= 1
    /\ \A i \in 1..Len(nodes) : nodes[i].type # "subnet"

\* C9: an object store dropped at a point no subnet is drawn over is added as
\* the last node, with no parent and the drop point as its position.
C9_ObjectStoreDropsAsOrphan ==
    /\ last.op = "dropRejected" => last.kind # "s3"
    /\ ( /\ last.op = "dropped"
         /\ last.kind = "s3"
         /\ \A i \in 1..Len(last.pre) :
               Category(last.pre[i]) = "subnet-container"
                   => ~Covers(last.pre, last.pre[i], last.point) )
       => /\ Len(nodes) = Len(last.pre) + 1
          /\ SubSeq(nodes, 1, Len(last.pre)) = last.pre
          /\ nodes[Len(nodes)].parentNode = Undefined
          /\ nodes[Len(nodes)].position = last.point

\* C10: a compute instance dragged from its subnet to a point drawn inside a
\* network but inside no subnet gets no new parent, is judged invalid and is
\* again the child of its subnet at its pre-drag position.
C10_LeafOutsideSubnetReverts ==
    ( /\ last.op \in StopOutcomes
      /\ last.kind = "ec2"
      /\ find(last.pre, last.id).parentNode # Undefined
      /\ \E i \in 1..Len(nodes) :
            Category(nodes[i]) = "network-container" /\ Covers(nodes, nodes[i], last.point)
      /\ \A i \in 1..Len(nodes) :
            Category(nodes[i]) = "subnet-container" => ~Covers(nodes, nodes[i], last.point) )
    => /\ last.parent = Undefined
       /\ last.op = "reverted"
       /\ find(nodes, last.id).parentNode = find(last.pre, last.id).parentNode
       /\ find(nodes, last.id).position = find(last.pre, last.id).position

\* C11: a drag gesture on a network-container leaves that node's stored
\* position and parentId as they were before the gesture.
C11_NetworkDragMovesNothing ==
    ( /\ last.op \in StopOutcomes
      /\ Category(find(last.pre, last.id)) = "network-container" )
    => /\ find(nodes, last.id).position = find(last.pre, last.id).position
       /\ find(nodes, last.id).parentNode = find(last.pre, last.id).parentNode

\* The absolute position of the dragged node when the pointer was released:
\* the center onNodeDragStop computed, less half the node's size.
releasedAt(n, center) == Minus(center, << n.width \div 2, n.height \div 2 >>)

\* C12: after an accepted drag-stop that changed or cleared the parent, the
\* new parent's absolute position plus the new relative position is the
\* absolute position the node had when the pointer was released.
C12_ReparentKeepsAbsolute ==
    last.op \in { "reparented", "orphaned" } =>
        LET n == find(nodes, last.id)
        IN  Plus(flowAbsolute(nodes, find(nodes, n.parentNode)), n.position)
                = releasedAt(n, last.point)

\* Following parentNode from node ends at a node without parent, through
\* stored nodes only and without meeting an id of `seen` again.
RECURSIVE climbs(_, _, _)
climbs(ns, node, seen) ==
    IF node.parentNode = Undefined THEN TRUE
    ELSE LET p == find(ns, node.parentNode)
         IN  /\ p # Undefined
             /\ p.id \notin seen
             /\ climbs(ns, p, seen \cup { p.id })

\* C14: the parent relation over the stored nodes is acyclic.
C14_ParentRelationAcyclic ==
    \A i \in 1..Len(nodes) : climbs(nodes, nodes[i], { nodes[i].id })

\* A drag-stop has just put a node under a parent that has a parent itself.
C14_Witness ==
    /\ last.op = "reparented"
    /\ find(nodes, last.parent).parentNode # Undefined
    /\ find(nodes, last.id).parentNode = last.parent

\* C13: a node inside a container that one drag gesture moved out of the
\* container (accepted as an orphan, or reverted) and the next gesture moved
\* back to the absolute spot it came from has its original parentId and
\* relative position again.
C13_OutAndBackRestores ==
    ( /\ last.op \in StopOutcomes
      /\ last.prev # Undefined
      /\ last.prev.parentNode # Undefined
      /\ last.prev.op \in { "orphaned", "reverted" }
      /\ ~Covers(last.pre, find(last.pre, last.prev.parentNode), last.prev.center)
      /\ releasedAt(find(nodes, last.id), last.point) = last.prev.abs )
    => /\ find(nodes, last.id).parentNode = last.prev.parentNode
       /\ find(nodes, last.id).position = last.prev.position

\* C15: a request is issued only when DEBOUNCE_MS have passed since the last
\* change of the node list; it is the only request since the burst of
\* changes began, it carries the node list as of the last change, and no
\* timeout of an earlier change is left to issue another.
C15_OneRequestPerBurst ==
    cev.op = "requested" =>
        /\ cev.quiet = DEBOUNCE_MS
        /\ cev.burstIssued = 1
        /\ timers = << >>
        /\ cev.request.body = estimateCosts(nodes)

\* Two nodes were added less than DEBOUNCE_MS apart and the one request of
\* the burst was issued for both.
C15_Witness ==
    /\ cev.op = "requested"
    /\ cev.changes = 2
    /\ cev.issued = 1
    /\ Len(nodes) = 2
    /\ Len(inflight) = 1
    /\ Len(inflight[1].body.nodes) = 2

\* C16: in the step that leaves the node list empty, totalCost becomes 0 and
\* costBreakdown the empty map.
C16_EmptyListResetsAtOnce ==
    (last.op = "removed" /\ nodes = << >> /\ cev.op = "changed")
        => costs = setCosts(0, << >>)

\* The figures the answer to a request body puts on display.
shown(body) == setCosts(priced(body).total_monthly_cost, priced(body).breakdown)

\* C17: issuing a request leaves every older request in flight, and every
\* answer that arrives is put on display, whatever was answered before.
C17_LastResolvedWins ==
    /\ cev.op = "requested" =>
           { inflight[k].seq : k \in 1..Len(inflight) }
               = cev.request.overlaps \cup { cev.request.seq }
    /\ cev.op = "responded" => costs = shown(cev.request.body)

\* The answer to the older of two overlapping requests was applied after the
\* answer to the newer one: the figures on display are those of the older
\* node list, not those of the list the store holds.
C17_Witness ==
    /\ cev.op = "responded"
    /\ cev.request.seq < cev.answered
    /\ cev.request.body # estimateCosts(nodes)
    /\ costs = shown(cev.request.body)
    /\ costs # shown(estimateCosts(nodes))

Presentational == { "position", "positionAbsolute", "style", "zIndex", "selected" }

\* C19: the body of a code-generation request holds every node with its
\* id, type, parent reference and attributes and without any presentational
\* property, and the edge collection.
C19_GeneratePayloadStripped ==
    (probe.applied /\ probe.op = "generate") =>
        /\ Len(probe.body.nodes) = Len(nodes)
        /\ \A i \in 1..Len(nodes) :
              LET sent == probe.body.nodes[i] IN
              /\ DOMAIN sent \cap Presentational = {}
              /\ { "id", "type", "data" } \subseteq DOMAIN sent
              /\ sent.id = nodes[i].id /\ sent.type = nodes[i].type
              /\ sent.data = nodes[i].data
              /\ nodes[i].parentNode # Undefined =>
                    ("parentNode" \in DOMAIN sent /\ sent.parentNode = nodes[i].parentNode)
        /\ probe.body.edges = edges

\* C20: updateNode(id, payload) sets the payload's top-level fields on the
\* node with that id and leaves its other fields, every other node and the
\* edges as they were; when no node has the id, the node collection is as it
\* was.
C20_UpdateNodeFrame ==
    (probe.applied /\ probe.op = "updateNode") =>
        /\ Len(nodes) = Len(probe.pre)
        /\ \A i \in 1..Len(nodes) :
              IF probe.pre[i].id = probe.id
              THEN /\ DOMAIN nodes[i] = DOMAIN probe.pre[i] \cup DOMAIN probe.payload
                   /\ \A f \in DOMAIN nodes[i] :
                         nodes[i][f] = IF f \in DOMAIN probe.payload
                                       THEN probe.payload[f] ELSE probe.pre[i][f]
              ELSE nodes[i] = probe.pre[i]
        /\ edges = probe.preEdges
        /\ (\A i \in 1..Len(probe.pre) : probe.pre[i].id # probe.id) => nodes = probe.pre

\* updateNode has just given the object store a new parent and position.
C20_Witness ==
    /\ probe.applied
    /\ probe.op = "updateNode"
    /\ probe.id = WithBucket.node.id
    /\ "parentNode" \in DOMAIN probe.payload
    /\ find(nodes, probe.id).parentNode = probe.payload.parentNode
    /\ find(nodes, probe.id).parentNode # find(probe.pre, probe.id).parentNode
    /\ edges # << >>

\* C21: updateNodeData(id, newData) sets the supplied keys in the attributes
\* of the node with that id; the attributes it was not given keep their
\* values, and the node's position, parent, size and every other field, every
\* other node and the edges are as they were.
C21_UpdateNodeDataFrame ==
    (probe.applied /\ probe.op = "updateNodeData") =>
        /\ Len(nodes) = Len(probe.pre)
        /\ \A i \in 1..Len(nodes) :
              IF probe.pre[i].id = probe.id
              THEN /\ DOMAIN nodes[i] = DOMAIN probe.pre[i]
                   /\ \A f \in DOMAIN nodes[i] \ { "data" } :
                         nodes[i][f] = probe.pre[i][f]
                   /\ DOMAIN nodes[i].data =
                         DOMAIN probe.pre[i].data \cup DOMAIN probe.payload
                   /\ \A k \in DOMAIN nodes[i].data :
                         nodes[i].data[k] = IF k \in DOMAIN probe.payload
                                            THEN probe.payload[k]
                                            ELSE probe.pre[i].data[k]
              ELSE nodes[i] = probe.pre[i]
        /\ edges = probe.preEdges

\* updateNodeData has just renamed the object store, which has other
\* attributes, a parent and an edge.
C21_Witness ==
    /\ probe.applied
    /\ probe.op = "updateNodeData"
    /\ probe.id = WithBucket.node.id
    /\ "label" \in DOMAIN probe.payload
    /\ find(nodes, probe.id).data.label = "renamed"
    /\ find(probe.pre, probe.id).data.label # "renamed"
    /\ find(nodes, probe.id).data.forceDestroy = FALSE
    /\ find(nodes, probe.id).parentNode # Undefined
    /\ edges # << >>

\* C22: addNode(node) puts the node after every node the collection held;
\* those keep their content and their order, and the edges are as they were.
C22_AddNodeAppends ==
    (probe.applied /\ probe.op = "addNode") =>
        /\ Len(nodes) = Len(probe.pre) + 1
        /\ nodes[Len(nodes)] = probe.node
        /\ \A i \in 1..Len(probe.pre) : nodes[i] = probe.pre[i]
        /\ edges = probe.preEdges

\* addNode has just added a node to a collection of three nodes and an edge.
C22_Witness ==
    /\ probe.applied
    /\ probe.op = "addNode"
    /\ Len(probe.pre) = 3
    /\ nodes[4] = probe.node
    /\ probe.node.id \notin { probe.pre[i].id : i \in 1..3 }
    /\ edges # << >>

\* A stored node whose parentNode names no stored node.
Dangling(ns, n) == n.parentNode # Undefined /\ find(ns, n.parentNode) = Undefined

\* C23: for a stored node whose parentNode names no stored node,
\* getAbsolutePosition returns the node's own relative position.
C23_DanglingParentIsOrigin ==
    \A i \in 1..Len(nodes) :
        Dangling(nodes, nodes[i]) =>
            getAbsolutePosition(nodes, nodes[i]) = nodes[i].position

\* A node of a resource the containment table has no row for: neither its
\* type nor its resource kind is one the rules or the palette name.
Uncategorised(n) == n.type \notin RuleTypes /\ n.data.type \notin AllPaletteTypes

Evaluated == { "reverted", "reparented", "orphaned", "kept" }

\* C25: the drag-stop of a node of kind k whose center is p found the
\* container, and gave the verdict, that a palette drop of kind k at p finds
\* and gives on the same stored nodes.
C25_DropAndDragAgree ==
    last.op \in Evaluated =>
        LET drop == onDrop(nodes, last.kind, clock + 1, last.point)
        IN  /\ drop.node.parentNode = last.parent
            /\ drop.valid = (last.op # "reverted")

\* The i-th stored node is a container other than the node n, is drawn
\* around the point p and has the category the table requires of n's parent.
Qualifies(ns, i, n, p) ==
    /\ isContainerType(ns[i].type)
    /\ ns[i].id # n.id
    /\ Covers(ns, ns[i], p)
    /\ Category(ns[i]) = RequiredParent(Category(n))

\* C26: the parent a drag-stop chose is the qualifying container that comes
\* first by descending stacking index (among equals, first in the node
\* list), or none when no container qualifies; it is never the dragged node;
\* and every subnet and cluster container stacks above every network.
C26_FirstQualifyingCandidate ==
    last.op \in Evaluated =>
        LET n == find(nodes, last.id)
            Q == { i \in 1..Len(nodes) : Qualifies(nodes, i, n, last.point) }
        IN  /\ last.parent # last.id
            /\ IF Q = {} THEN last.parent = Undefined
               ELSE \E i \in Q :
                      /\ nodes[i].id = last.parent
                      /\ \A j \in Q : \/ nodes[j].zIndex < nodes[i].zIndex
                                       \/ (nodes[j].zIndex = nodes[i].zIndex /\ j >= i)
            /\ \A i, j \in 1..Len(nodes) :
                  (nodes[i].type \in { "subnet", "eks" } /\ nodes[j].type = "vpc")
                      => nodes[i].zIndex > nodes[j].zIndex

\* The point p is within, or on the border of, the rectangle with the given
\* top-left corner, width and height.
OnOrWithin(p, topLeft, w, h) ==
    /\ topLeft[1] <= p[1] /\ p[1] <= topLeft[1] + w
    /\ topLeft[2] <= p[2] /\ p[2] <= topLeft[2] + h

\* The rectangle the handlers resolve for the container c holds the point p,
\* borders included.
Holds(ns, c, p) == OnOrWithin(p, getAbsolutePosition(ns, c), c.width, c.height)

\* C27: when the point of an accepted drop, or the center of a released
\* node, lies within or on the border of the resolved rectangle of a
\* container of the category the node requires, a parent was found and its
\* rectangle holds the point, borders included.  (The release of a node
\* group is left out: its pairing test never matches a cluster.)
C27_InclusiveBounds ==
    ( /\ last.op \in Evaluated \cup { "dropped" }
      /\ last.kind # "vpc"
      /\ ~(last.op \in Evaluated /\ last.kind = "eks-node-group") )
    => LET n == find(nodes, last.id)
       IN  (\E i \in 1..Len(nodes) :
               /\ nodes[i].id # last.id
               /\ isContainerType(nodes[i].type)
               /\ Category(nodes[i]) = RequiredParent(Category(n))
               /\ Holds(nodes, nodes[i], last.point))
           => /\ last.parent # Undefined
              /\ Holds(nodes, find(nodes, last.parent), last.point)

\* A node was released with its center exactly on the bottom-right corner
\* of the subnet and became its child, beside a node that was dropped on
\* that corner.
C27_Witness ==
    /\ last.op = "reparented"
    /\ last.parent # Undefined
    /\ LET parent == find(nodes, last.parent)
           corner == Plus(getAbsolutePosition(nodes, parent),
                          << parent.width, parent.height >>)
       IN  /\ last.point = corner
           /\ \E i \in 1..Len(nodes) :
                 /\ nodes[i].id # last.id
                 /\ nodes[i].parentNode = parent.id
                 /\ nodes[i].positionAbsolute = Undefined
                 /\ nodes[i].position = << parent.width, parent.height >>

\* C28: while a gesture is under way the snapshot taken at its start is that
\* of the dragged node, whatever the earlier gestures ended with; and every
\* gesture that ended was evaluated, ended committed or reverted, and left
\* no gesture under way.
C28_GestureStateMachine ==
    /\ dragging # Undefined => (dragRef # Undefined /\ dragRef.id = dragging)
    /\ last.op \in StopOutcomes => (dragging = Undefined /\ last.op \in Evaluated)

\* The drag-stops that passed the placement check.
Accepted == { "reparented", "orphaned", "kept" }

\* C29: after an accepted drag-stop every node but the dragged one, and
\* with them its descendants and their relative positions, and every edge
\* are as they were when the gesture started; the dragged node differs from
\* then in its position and parent (and in the absolute position React Flow
\* caches on it during the drag) and in nothing else.
C29_AcceptedDragFrame ==
    last.op \in Accepted =>
        /\ SameExceptNode(nodes, last.pre, last.id)
        /\ edges = last.preEdges
        /\ LET n == find(nodes, last.id)
               was == find(last.pre, last.id)
           IN  /\ DOMAIN n = DOMAIN was
               /\ \A f \in DOMAIN n \ { "position", "parentNode", "positionAbsolute" } :
                     n[f] = was[f]

\* A subnet holding a node was released inside another network and became
\* its child at a new relative position.
C29_Witness ==
    /\ last.op = "reparented"
    /\ \E i \in 1..Len(nodes) : nodes[i].parentNode = last.id
    /\ find(nodes, last.id).parentNode = last.parent
    /\ find(nodes, last.id).parentNode # find(last.pre, last.id).parentNode
    /\ find(nodes, last.id).position # find(last.pre, last.id).position

\* C30: a drag-stop that passed the check and chose the parent the node
\* already had, or none for a node that had none, wrote nothing: the parent
\* is the one at drag start, the stored position is the one the drag gave the
\* node (parent's drawn position plus stored position is where the node was
\* released), and every other node and field is as at drag start.
C30_UnchangedParentWritesNothing ==
    last.op = "kept" =>
        LET n == find(nodes, last.id)
            was == find(last.pre, last.id)
        IN  /\ n.parentNode = was.parentNode
            /\ n.parentNode = last.parent
            /\ Plus(flowAbsolute(nodes, find(nodes, n.parentNode)), n.position)
                  = releasedAt(n, last.point)
            /\ \A f \in DOMAIN n \ { "position", "positionAbsolute" } : n[f] = was[f]
            /\ SameExceptNode(nodes, last.pre, last.id)
            /\ edges = last.preEdges

\* A node was moved inside its parent and released there.
C30_Witness ==
    /\ last.op = "kept"
    /\ last.parent # Undefined
    /\ find(nodes, last.id).parentNode = last.parent
    /\ find(nodes, last.id).position # find(last.pre, last.id).position

\* C31: the ids of the stored nodes are pairwise distinct.
C31_IdsDistinct ==
    \A i, j \in 1..Len(nodes) : i # j => nodes[i].id # nodes[j].id

\* C32: every invalid result of validatePlacement carries a reason that is
\* not the empty string.
C32_InvalidHasReason ==
    (probe.applied /\ ~probe.result.valid) =>
        ("message" \in DOMAIN probe.result /\ probe.result.message # "")

\* Reading a property of an object: undefined when the object has none.
field(obj, f) == IF f \in DOMAIN obj THEN obj[f] ELSE Undefined

\* Two node collections hold the same nodes in the same order, each with
\* the same value in every property.
SameNodes(ns, ms) ==
    /\ Len(ns) = Len(ms)
    /\ \A i \in 1..Len(ns) :
          \A f \in DOMAIN ns[i] \cup DOMAIN ms[i] : field(ns[i], f) = field(ms[i], f)

\* C33: after a load of a project that was saved, the store holds the nodes
\* and the edges the store held when it was saved, whatever it held just
\* before the load.
C33_SaveThenLoadRestores ==
    (probe.applied /\ probe.op = "load" /\ last.op = "saved") =>
        /\ SameNodes(nodes, last.pre)
        /\ edges = last.preEdges

\* A saved diagram of three nodes and an edge was loaded into a store that
\* had been changed since the save.
C33_Witness ==
    /\ probe.applied
    /\ probe.op = "load"
    /\ last.op = "saved"
    /\ Len(nodes) = 3
    /\ edges # << >>
    /\ probe.pre # << >>
    /\ ~SameNodes(probe.pre, last.pre)
    /\ SameNodes(nodes, last.pre)

\* C34: after an accepted drop, getAbsolutePosition of the created node is
\* the drop point; its stored position is the drop point minus
\* getAbsolutePosition of the chosen parent, or the drop point itself when
\* no parent was chosen.
C34_DropResolvesToPoint ==
    last.op = "dropped" =>
        LET n == find(nodes, last.id)
        IN  /\ getAbsolutePosition(nodes, n) = last.point
            /\ n.parentNode = last.parent
            /\ n.position = IF last.parent = Undefined THEN last.point
                            ELSE Minus(last.point,
                                       getAbsolutePosition(nodes, find(nodes, last.parent)))

\* A node was dropped into a container that is not at the origin.
C34_Witness ==
    /\ last.op = "dropped"
    /\ last.parent # Undefined
    /\ getAbsolutePosition(nodes, find(nodes, last.parent)) # << 0, 0 >>
    /\ find(nodes, last.id).position # last.point
    /\ getAbsolutePosition(nodes, find(nodes, last.id)) = last.point

\* The node is a descendant of the node with the given id.
RECURSIVE under(_, _, _)
under(ns, node, id) ==
    /\ node.parentNode # Undefined
    /\ \/ node.parentNode = id
       \/ LET p == find(ns, node.parentNode)
          IN  p # Undefined /\ under(ns, p, id)

\* C35: after the drag of a container was reverted, getAbsolutePosition of
\* every descendant of the container is what it was when the drag started.
C35_RevertKeepsDescendants ==
    (last.op = "reverted" /\ isContainerType(find(nodes, last.id).type)) =>
        \A i \in 1..Len(nodes) :
            under(nodes, nodes[i], last.id) =>
                getAbsolutePosition(nodes, nodes[i])
                    = getAbsolutePosition(last.pre, find(last.pre, nodes[i].id))

\* C36: when the node list is empty, no timeout of the cost effect is
\* pending and no cost request is in flight, totalCost is 0 and
\* costBreakdown is empty.
C36_EmptyGraphShowsNoCost ==
    (nodes = << >> /\ timers = << >> /\ inflight = << >>) => costs = setCosts(0, << >>)

\* The number of parent links getAbsolutePosition follows from node before
\* it returns: a link is followed when the node carries no positionAbsolute
\* (or when cached is FALSE, whatever it carries) and its parent is stored.
\* The count stops at fuel + 1 links.
RECURSIVE links(_, _, _, _)
links(ns, node, cached, fuel) ==
    IF node = Undefined \/ (cached /\ node.positionAbsolute # Undefined) THEN 0
    ELSE LET p == find(ns, node.parentNode)
         IN  IF p = Undefined THEN 0
             ELSE IF fuel = 0 THEN 1
             ELSE 1 + links(ns, p, cached, fuel - 1)

C38_RevertUsesOwnSnapshot ==
    /\ dragging # Undefined =>
        /\ dragRef # Undefined
        /\ dragRef.id = dragging
        /\ dragRef.position = find(last.pre, dragging).position
        /\ dragRef.parentNode = find(last.pre, dragging).parentNode
    /\ last.op = "reverted" =>
        /\ dragRef = onNodeDragStart(find(last.pre, last.id))
        /\ find(nodes, last.id).position = dragRef.position
        /\ find(nodes, last.id).parentNode = dragRef.parentNode

\* A drag has been reverted although, when it began, dragRef.current still
\* held the snapshot of an earlier gesture on another node, taken at another
\* position.
C38_Witness ==
    /\ last.op = "reverted"
    /\ last.stale # Undefined
    /\ last.stale.id # last.id
    /\ last.stale.position # find(last.pre, last.id).position
    /\ find(nodes, last.id).position = find(last.pre, last.id).position

====
